---- MODULE Spec2Model ----
(***************************************************************************)
(* Contribution settlement of lumentix-backend:                            *)
(* ContributionsService.createIntent / confirmContribution                 *)
(* (src/src/sponsors/contributions.service.ts) run by concurrent requests  *)
(* against the shared contribution table.  Every `await` on the store, on  *)
(* the audit recorder or on the network is one step of the invocation.     *)
(***************************************************************************)
EXTENDS Integers, Sequences, FiniteSets, Bags, TLC

VARIABLES
    store,          \* sponsor_contributions table: sequence of rows, in insertion order
    audit,          \* audit log: bag of the events passed to auditService.log
    tiers,          \* sponsor_tiers table: tier id -> row
    pc,             \* per request slot: the await the invocation is suspended at
    call,           \* per request slot: operation and arguments of the running invocation
    tier,           \* per request slot: the SponsorTier object held in memory
    contribution,   \* per request slot: the SponsorContribution entity held in memory
    reason,         \* per request slot: the reason string handed to markFailed
    response,       \* what the step just taken answered to its caller, if it ended an invocation
    ledger,         \* the Stellar network: transaction hash -> transaction record
    auditUp,        \* whether the audit recorder accepts events
    amountCheck     \* the amount stage on its own: its two operands and its verdict

vars == <<store, audit, tiers, pc, call, tier, contribution, reason, response, ledger, auditUp, amountCheck>>

-----------------------------------------------------------------------------
(* Bounds and inputs *)

\* Rows the contribution table may hold (createIntent is disabled beyond it).
MaxContribs == 2

\* Concurrent request slots.
Procs == {"p1", "p2"}

\* Identifiers handed out by PrimaryGeneratedColumn('uuid'), in order of insertion.
UuidPool == <<"c1", "c2", "c3", "c4">>

Sponsors == {"sA"}

\* tierId arguments: two existing tiers and one unknown id.
TierIdArgs == {"t1", "t2", "tX"}

Null == "null"
Undefined == "undefined"

\* ContributionStatus
PENDING == "pending"
CONFIRMED == "confirmed"
FAILED == "failed"

SUPPORTED_ASSETS == {"XLM", "USDC"}

\* ESCROW_WALLET_PUBLIC_KEY
escrowWallet == "GESCROW"

\* A decimal string "int.digits", e.g. Dec(100, <<0,0,0,0,0,0,0>>) is "100.0000000".
Dec(i, ds) == [int |-> i, digits |-> ds]

Price100 == Dec(100, <<0, 0, 0, 0, 0, 0, 0>>)

InitTiers ==
    [t \in {"t1", "t2"} |->
        IF t = "t1"
        THEN [id |-> "t1", name |-> "Gold", price |-> Price100, maxSponsors |-> 1]
        ELSE [id |-> "t2", name |-> "Silver", price |-> Price100, maxSponsors |-> 2]]

-----------------------------------------------------------------------------
(* Numbers *)

Pow10(n) == IF n = 0 THEN 1 ELSE IF n = 1 THEN 10 ELSE IF n = 2 THEN 100
            ELSE IF n = 3 THEN 1000 ELSE IF n = 4 THEN 10000
            ELSE IF n = 5 THEN 100000 ELSE IF n = 6 THEN 1000000
            ELSE IF n = 7 THEN 10000000 ELSE 100000000

RECURSIVE DigitsValue(_)
DigitsValue(ds) ==
    IF Len(ds) = 0 THEN 0
    ELSE DigitsValue(SubSeq(ds, 1, Len(ds) - 1)) * 10 + ds[Len(ds)]

\* parseFloat of a decimal string with at most 8 fractional digits: the number
\* as whole units plus a count of 1e-8 units.
parseFloat(s) ==
    [whole |-> s.int, e8 |-> DigitsValue(s.digits) * Pow10(8 - Len(s.digits))]

Abs(x) == IF x < 0 THEN -x ELSE x

\* |a - b| in units of 1e-8, saturated at 2 whole units.
AbsDiffE8(a, b) ==
    IF Abs(a.whole - b.whole) > 1 THEN 2 * Pow10(8)
    ELSE Abs((a.whole - b.whole) * Pow10(8) + (a.e8 - b.e8))

\* In units of 1e-8.
EpsilonE8 == 10

Num(w, e) == [whole |-> w, e8 |-> e]

\* The operand pairs, among those exactly 1e-7 apart, whose IEEE-754 double
\* difference is above the double 0.0000001 (the decimals are not exactly
\* representable): 5.0000001-5 = 1.0000000028e-7, 1.0000001-1 = 1.0000000006e-7,
\* 0.5-0.4999999 = 1.0000000000288e-7; 100.0000001-100 = 9.9999994e-8 is not.
Float64AboveEpsilon ==
    { <<Num(5, 10), Num(5, 0)>>, <<Num(4, 99999990), Num(5, 0)>>,
      <<Num(1, 10), Num(1, 0)>>,
      <<Num(0, 49999990), Num(0, 50000000)>> }

\* Math.abs(onChainAmount - expectedAmount) > 0.0000001
amountMismatch(onChainAmount, expectedAmount) ==
    LET d == AbsDiffE8(onChainAmount, expectedAmount) IN
    IF d = EpsilonE8
    THEN <<onChainAmount, expectedAmount>> \in Float64AboveEpsilon
    ELSE d > EpsilonE8

-----------------------------------------------------------------------------
(* The ledger: what the Stellar network holds for each transaction hash *)

Str(v) == [type |-> "string", value |-> v]
NoMemo == [type |-> "undefined", value |-> Undefined]

\* PaymentOp
Op(type, to, amount, asset_type, asset_code) ==
    [type |-> type, to |-> to, amount |-> amount,
     asset_type |-> asset_type, asset_code |-> asset_code]

Native(to, amount) == Op("payment", to, amount, "native", Undefined)
Credit(to, amount, code) == Op("payment", to, amount, "credit_alphanum4", code)

Tx(memo, href, records) == [memo |-> memo, opsHref |-> href, records |-> records]

NoRecord == [memo |-> NoMemo, opsHref |-> Null, records |-> <<>>]

GoodC1 == Tx(Str("c1"), "ops", <<Native(escrowWallet, Price100)>>)
GoodC2 == Tx(Str("c2"), "ops", <<Native(escrowWallet, Price100)>>)

\* The transactions a behaviour's callers may have broadcast, by hash.  Every
\* behaviour runs against one of these ledgers.
LedgerRace ==
    [h \in {"hA", "hC", "hD"} |->
      CASE h = "hA" -> GoodC1
        [] h = "hC" -> GoodC2
        [] OTHER -> Tx(Str("c3"), "ops",
                <<Credit(escrowWallet, Dec(99, <<9, 9, 9, 9, 9, 9, 9, 9>>), "USDC")>>)]

LedgerSameMemo ==
    [h \in {"hA", "hB"} |->
      CASE h = "hA" -> GoodC1
        [] OTHER -> Tx(Str("c1"), "ops",
                <<Credit(escrowWallet, Dec(100, <<0, 0, 0, 0, 0, 0, 0, 1>>), "usdc")>>)]

LedgerDestinationAsset ==
    [h \in {"hA", "hE", "hF"} |->
      CASE h = "hA" -> GoodC1
        [] h = "hE" -> Tx(Str("c2"), "ops", <<Credit("GOTHER", Price100, "EURT")>>)
        [] OTHER -> Tx(Str("c2"), "ops",
                <<Credit(escrowWallet, Price100, "EURT"),
                  Native(escrowWallet, Price100)>>)]

LedgerAmount ==
    [h \in {"hC", "hG", "hH"} |->
      CASE h = "hC" -> GoodC2
        [] h = "hG" -> Tx(Str("c2"), "ops",
                <<Native(escrowWallet, Dec(100, <<0, 0, 0, 0, 0, 1>>))>>)
        [] OTHER -> Tx(Str("c1"), "ops",
                <<Native("GOTHER", Price100),
                  Native(escrowWallet, Dec(99, <<9, 9, 9, 9, 9, 9>>)),
                  Native(escrowWallet, Dec(0, <<0, 0, 0, 0, 0, 1>>)),
                  Native(escrowWallet, Price100)>>)]

LedgerOperations ==
    [h \in {"hI", "hJ", "hK"} |->
      CASE h = "hI" -> Tx(Str("c1"), "ops",
                <<Op("manage_sell_offer", Undefined, Price100, "native", Undefined),
                  Op("create_account", Undefined, Undefined, Undefined, Undefined)>>)
        [] h = "hJ" -> Tx(Str("c1"), "ops",
                <<Op("manage_sell_offer", Undefined, Price100, "native", Undefined)>>)
        [] OTHER -> Tx(Str("c2"), Undefined, <<Native(escrowWallet, Price100)>>)]

LedgerMemo ==
    [h \in {"hA", "hL", "hM", "hN", "hU"} |->
      CASE h = "hA" -> GoodC1
        [] h = "hL" -> Tx(NoMemo, "ops", <<Native(escrowWallet, Price100)>>)
        [] h = "hM" -> Tx([type |-> "number", value |-> "1"], "ops",
                <<Native(escrowWallet, Price100)>>)
        [] h = "hN" -> Tx(Str(""), "ops", <<Native(escrowWallet, Price100)>>)
        [] OTHER -> Tx(Str("zz"), "ops", <<Native(escrowWallet, Price100)>>)]

Ledgers == {LedgerRace, LedgerSameMemo, LedgerDestinationAsset, LedgerAmount,
            LedgerOperations, LedgerMemo}

\* A hash no ledger holds.
UnknownHash == "hZ"

\* transactionHash arguments a caller may submit.
HashArgs == DOMAIN ledger \cup {UnknownHash}

\* stellarService.getTransaction(hash): the record, no record, or an error.
getTransaction(h) ==
    {[outcome |-> "error", record |-> NoRecord]} \cup
    {IF h \in DOMAIN ledger THEN [outcome |-> "record", record |-> ledger[h]]
                            ELSE [outcome |-> "none", record |-> NoRecord]}

\* fetch(opsHref): throws, answers non-OK, or answers with the embedded records.
FetchOutcomes == {"ok", "notOk", "throws"}


-----------------------------------------------------------------------------
(* Helpers of the service *)

IsPaymentType(op) == op.type = "payment" \/ op.type = "create_account"

\* records.filter((op) => op.type === 'payment' || op.type === 'create_account')
RECURSIVE filterPaymentOps(_)
filterPaymentOps(records) ==
    IF Len(records) = 0 THEN <<>>
    ELSE IF IsPaymentType(Head(records))
    THEN <<Head(records)>> \o filterPaymentOps(Tail(records))
    ELSE filterPaymentOps(Tail(records))

\* Mutant: a record without an operations link yields its operations.
resolvePaymentOperations_noLinkCheck(txRecord, fetched) ==
    IF fetched # "ok" THEN <<>>
    ELSE filterPaymentOps(txRecord.records)

\* resolvePaymentOperations(txRecord): [] without an operations link, on a
\* non-OK response and on any exception, else the payment and create_account
\* records.
resolvePaymentOperations(txRecord, fetched) ==
    IF txRecord.opsHref = Undefined THEN <<>>
    ELSE IF fetched # "ok" THEN <<>>
    ELSE filterPaymentOps(txRecord.records)

ToEscrow(op) == op.to = escrowWallet

\* Mutant: the last operation paying the escrow wallet is taken.
findMatchingOp_last(ops) ==
    IF \E i \in 1..Len(ops) : ToEscrow(ops[i])
    THEN CHOOSE i \in 1..Len(ops) :
            ToEscrow(ops[i]) /\ \A j \in (i + 1)..Len(ops) : ~ToEscrow(ops[j])
    ELSE 0

\* ops.find((op) => op.to === this.escrowWallet): the index of the first
\* operation paying the escrow wallet, 0 if none does.
findMatchingOp(ops) ==
    IF \E i \in 1..Len(ops) : ToEscrow(ops[i])
    THEN CHOOSE i \in 1..Len(ops) :
            ToEscrow(ops[i]) /\ \A j \in 1..(i - 1) : ~ToEscrow(ops[j])
    ELSE 0

toUpperCase(s) ==
    CASE s = "usdc" -> "USDC"
      [] s = "xlm"  -> "XLM"
      [] s = "eurt" -> "EURT"
      [] OTHER      -> s

assetCodeOf(op) ==
    IF op.asset_type = "native" THEN "XLM"
    ELSE IF op.asset_code = Undefined THEN "" ELSE op.asset_code

\* c.tierId = :tierId AND c.status = 'confirmed' [AND c.id != :excludeId]
confirmedCount(st, tierId, excludeId) ==
    Cardinality({i \in 1..Len(st) :
        /\ st[i].tierId = tierId
        /\ st[i].status = CONFIRMED
        /\ st[i].id # excludeId})

\* Mutant: the tier counts as full only above maxSponsors.
capacityExhausted_above(st, t, excludeId) ==
    confirmedCount(st, t.id, excludeId) > t.maxSponsors

\* TRUE when assertCapacityAvailable throws ConflictException.
capacityExhausted(st, t, excludeId) ==
    confirmedCount(st, t.id, excludeId) >= t.maxSponsors

\* Mutant: the lookup ignores the status.
findOne_anyStatus(st, id, status) ==
    {i \in 1..Len(st) : st[i].id = id}

\* contributionRepository.findOne({ where: { id, status } })
findOne(st, id, status) ==
    {i \in 1..Len(st) : st[i].id = id /\ st[i].status = status}

\* contributionRepository.save(entity): insert when the entity has no row,
\* otherwise make the row equal to the entity.
save(st, entity) ==
    IF \E i \in 1..Len(st) : st[i].id = entity.id
    THEN [i \in 1..Len(st) |-> IF st[i].id = entity.id THEN entity ELSE st[i]]
    ELSE Append(st, entity)

AuditEvent(action, userId, resourceId, meta) ==
    [action |-> action, userId |-> userId, resourceId |-> resourceId, meta |-> meta]

log(bag, event) == bag (+) SetToBag({event})

\* The validation stages between the operation fetch and the capacity re-check:
\* the reason handed to markFailed, or NoReason when every stage passes.
NoReason == [kind |-> "none", detail |-> <<>>]

validate(ops, entity) ==
    IF Len(ops) = 0
    THEN [kind |-> "noOperations", detail |-> <<>>]
    ELSE LET m == findMatchingOp(ops) IN
      IF m = 0
      THEN [kind |-> "destination", detail |-> <<escrowWallet>>]
      ELSE LET matchingOp == ops[m]
               assetCode == assetCodeOf(matchingOp) IN
        IF toUpperCase(assetCode) \notin SUPPORTED_ASSETS
        THEN [kind |-> "asset", detail |-> <<assetCode>>]
        ELSE LET onChainAmount == parseFloat(matchingOp.amount)
                 expectedAmount == parseFloat(entity.amount) IN
          IF amountMismatch(onChainAmount, expectedAmount)
          THEN [kind |-> "amount", detail |-> <<expectedAmount, onChainAmount>>]
          ELSE NoReason

-----------------------------------------------------------------------------
(* State *)

NoCall == [op |-> "none", tierId |-> Null, sponsorId |-> Null, hash |-> Null]
NoTier == [id |-> Null, name |-> Null, price |-> Null, maxSponsors |-> 0]
NoContribution ==
    [id |-> Null, sponsorId |-> Null, tierId |-> Null, amount |-> Null,
     transactionHash |-> Null, status |-> Null]
NoResponse ==
    [proc |-> Null, call |-> NoCall, kind |-> "none", message |-> "none",
     value |-> NoContribution]

NoAmountCheck == [onChain |-> Null, expected |-> Null, verdict |-> "none"]

Init ==
    /\ store = <<>>
    /\ audit = EmptyBag
    /\ tiers = InitTiers
    /\ pc = [p \in Procs |-> "idle"]
    /\ call = [p \in Procs |-> NoCall]
    /\ tier = [p \in Procs |-> NoTier]
    /\ contribution = [p \in Procs |-> NoContribution]
    /\ reason = [p \in Procs |-> NoReason]
    /\ response = NoResponse
    /\ ledger \in Ledgers
    /\ auditUp \in BOOLEAN
    /\ amountCheck = NoAmountCheck

\* The invocation of slot p, called with arguments c, ends: its locals are
\* dropped and the caller is answered.
Finish(p, c, kind, message, value) ==
    /\ pc' = [pc EXCEPT ![p] = "idle"]
    /\ call' = [call EXCEPT ![p] = NoCall]
    /\ tier' = [tier EXCEPT ![p] = NoTier]
    /\ contribution' = [contribution EXCEPT ![p] = NoContribution]
    /\ reason' = [reason EXCEPT ![p] = NoReason]
    /\ response' = [proc |-> p, call |-> c, kind |-> kind, message |-> message,
                    value |-> value]
    /\ UNCHANGED amountCheck

-----------------------------------------------------------------------------
(* createIntent *)

CreateCall(tierId, sponsorId) ==
    [op |-> "createIntent", tierId |-> tierId, sponsorId |-> sponsorId, hash |-> Null]

ConfirmCall(transactionHash) ==
    [op |-> "confirmContribution", tierId |-> Null, sponsorId |-> Null,
     hash |-> transactionHash]

\* The table is bounded: an intent that would be admitted starts only while a
\* row is left for it.
RoomFor(tierId) ==
    IF tierId \notin DOMAIN tiers THEN TRUE
    ELSE IF capacityExhausted(store, tiers[tierId], Null) THEN TRUE
    ELSE Len(store) + Cardinality({q \in Procs : call[q].op = "createIntent"})
            < MaxContribs

\* A step that does not end the invocation of slot p.
Goto(p, label) ==
    /\ pc' = [pc EXCEPT ![p] = label]
    /\ response' = NoResponse
    /\ UNCHANGED amountCheck

\* The invocation starts and getTierById answers.
createIntent(p, tierId, sponsorId) ==
    /\ pc[p] = "idle"
    /\ RoomFor(tierId)
    /\ IF tierId \notin DOMAIN tiers
       THEN Finish(p, CreateCall(tierId, sponsorId), "NotFound", "tier", NoContribution)
       ELSE /\ Goto(p, "ci_count")
            /\ call' = [call EXCEPT ![p] = CreateCall(tierId, sponsorId)]
            /\ tier' = [tier EXCEPT ![p] = tiers[tierId]]
            /\ UNCHANGED <<contribution, reason>>
    /\ UNCHANGED <<store, audit, tiers, ledger, auditUp>>

\* assertCapacityAvailable(tier) answers; the entity is created in memory.
CreateIntentCapacity(p) ==
    /\ pc[p] = "ci_count"
    /\ IF capacityExhausted(store, tier[p], Null)
       THEN Finish(p, call[p], "Conflict", "tierFull", NoContribution)
       ELSE /\ Goto(p, "ci_save")
            /\ contribution' = [contribution EXCEPT ![p] =
                  [id |-> Null, sponsorId |-> call[p].sponsorId,
                   tierId |-> call[p].tierId, amount |-> tier[p].price,
                   transactionHash |-> Null, status |-> PENDING]]
            /\ UNCHANGED <<call, tier, reason>>
    /\ UNCHANGED <<store, audit, tiers, ledger, auditUp>>

\* contributionRepository.save(contribution) inserts the row under a fresh id.
CreateIntentSave(p) ==
    /\ pc[p] = "ci_save"
    /\ Len(store) < MaxContribs
    /\ LET saved == [contribution[p] EXCEPT !.id = UuidPool[Len(store) + 1]] IN
         /\ store' = save(store, saved)
         /\ contribution' = [contribution EXCEPT ![p] = saved]
    /\ Goto(p, "ci_audit")
    /\ UNCHANGED <<audit, tiers, call, tier, reason, ledger, auditUp>>

IntentCreatedEvent(p) ==
    AuditEvent("PAYMENT_INTENT_CREATED", call[p].sponsorId, contribution[p].id,
               <<call[p].tierId, tier[p].price, "XLM">>)

\* await auditService.log(event): the event is recorded and the invocation
\* ends with the given answer, or the rejection propagates to the caller.
AwaitAuditLog(p, event, kind, message, value) ==
    IF auditUp
    THEN /\ audit' = log(audit, event)
         /\ Finish(p, call[p], kind, message, value)
    ELSE /\ audit' = audit
         /\ Finish(p, call[p], "AuditError", "log", NoContribution)

\* Mutant: the memo returned is the sponsor's identifier.
CreateIntentAudit_memoSponsor(p) ==
    /\ pc[p] = "ci_audit"
    /\ AwaitAuditLog(p, IntentCreatedEvent(p), "ok", "intent",
          [contributionId |-> contribution[p].id, escrowWallet |-> escrowWallet,
           amount |-> tier[p].price, currency |-> "XLM",
           memo |-> call[p].sponsorId])
    /\ UNCHANGED <<store, tiers, ledger, auditUp>>

\* auditService.log answers and the intent is returned.
CreateIntentAudit(p) ==
    /\ pc[p] = "ci_audit"
    /\ AwaitAuditLog(p, IntentCreatedEvent(p), "ok", "intent",
          [contributionId |-> contribution[p].id, escrowWallet |-> escrowWallet,
           amount |-> tier[p].price, currency |-> "XLM",
           memo |-> contribution[p].id])
    /\ UNCHANGED <<store, tiers, ledger, auditUp>>

-----------------------------------------------------------------------------
(* confirmContribution *)

txRecord(p) == ledger[call[p].hash]

\* Mutant: the memo is taken whatever its type.
memoValueOf_anyType(record) == record.memo.value

\* typeof txRecord.memo === 'string' ? txRecord.memo : undefined
memoValueOf(record) ==
    IF record.memo.type = "string" THEN record.memo.value ELSE Undefined

\* !memoValue
memoMissing(record) == memoValueOf(record) = Undefined \/ memoValueOf(record) = ""

\* The invocation starts, getTransaction answers and the memo is extracted.
confirmContribution(p, transactionHash) ==
    /\ pc[p] = "idle"
    /\ \E r \in getTransaction(transactionHash) :
         CASE r.outcome = "error" ->
                Finish(p, ConfirmCall(transactionHash), "BadRequest", "notOnNetwork",
                       NoContribution)
           [] r.outcome = "none" ->
                Finish(p, ConfirmCall(transactionHash), "TypeError", "memoOfNoRecord",
                       NoContribution)
           [] OTHER ->
                IF memoMissing(r.record)
                THEN Finish(p, ConfirmCall(transactionHash), "BadRequest", "memoMissing",
                            NoContribution)
                ELSE /\ Goto(p, "cc_findOne")
                     /\ call' = [call EXCEPT ![p] = ConfirmCall(transactionHash)]
                     /\ UNCHANGED <<tier, contribution, reason>>
    /\ UNCHANGED <<store, audit, tiers, ledger, auditUp>>

\* contributionRepository.findOne({ id: memoValue, status: PENDING }, relations tier)
ConfirmFindOne(p) ==
    /\ pc[p] = "cc_findOne"
    /\ LET found == findOne(store, memoValueOf(txRecord(p)), PENDING) IN
         IF found = {}
         THEN Finish(p, call[p], "NotFound", "noPending", NoContribution)
         ELSE LET i == CHOOSE j \in found : TRUE IN
              /\ contribution' = [contribution EXCEPT ![p] = store[i]]
              /\ tier' = [tier EXCEPT ![p] = tiers[store[i].tierId]]
              /\ Goto(p, "cc_fetch")
              /\ UNCHANGED <<call, reason>>
    /\ UNCHANGED <<store, audit, tiers, ledger, auditUp>>

\* Mutant: the capacity re-check runs before the validation stages.
ConfirmResolveOps_capacityFirst(p) ==
    /\ pc[p] = "cc_fetch"
    /\ IF capacityExhausted(store, tier[p], contribution[p].id)
       THEN Finish(p, call[p], "Conflict", "tierFull", NoContribution)
       ELSE \E f \in FetchOutcomes :
         LET ops == resolvePaymentOperations(txRecord(p), f)
             r == validate(ops, contribution[p]) IN
         IF r # NoReason
         THEN /\ contribution' = [contribution EXCEPT ![p].status = FAILED]
              /\ reason' = [reason EXCEPT ![p] = r]
              /\ Goto(p, "mf_save")
              /\ UNCHANGED <<call, tier>>
         ELSE /\ Goto(p, "cc_count")
              /\ UNCHANGED <<call, tier, contribution, reason>>
    /\ UNCHANGED <<store, audit, tiers, ledger, auditUp>>

\* Mutant: the amount stage compares with the tier's live price.
ConfirmResolveOps_livePrice(p) ==
    /\ pc[p] = "cc_fetch"
    /\ \E f \in FetchOutcomes :
         LET ops == resolvePaymentOperations(txRecord(p), f)
             r == validate(ops, [contribution[p] EXCEPT
                                   !.amount = tiers[contribution[p].tierId].price]) IN
         IF r # NoReason
         THEN /\ contribution' = [contribution EXCEPT ![p].status = FAILED]
              /\ reason' = [reason EXCEPT ![p] = r]
              /\ Goto(p, "mf_save")
         ELSE /\ Goto(p, "cc_count")
              /\ UNCHANGED <<contribution, reason>>
    /\ UNCHANGED <<store, audit, tiers, call, tier, ledger, auditUp>>

\* resolvePaymentOperations answers and the destination, asset and amount stages
\* run; a failing stage calls markFailed, which sets the status in memory.
ConfirmResolveOps(p) ==
    /\ pc[p] = "cc_fetch"
    /\ \E f \in FetchOutcomes :
         LET ops == resolvePaymentOperations(txRecord(p), f)
             r == validate(ops, contribution[p]) IN
         IF r # NoReason
         THEN /\ contribution' = [contribution EXCEPT ![p].status = FAILED]
              /\ reason' = [reason EXCEPT ![p] = r]
              /\ Goto(p, "mf_save")
         ELSE /\ Goto(p, "cc_count")
              /\ UNCHANGED <<contribution, reason>>
    /\ UNCHANGED <<store, audit, tiers, call, tier, ledger, auditUp>>

\* Mutant: markFailed writes the status column alone.
MarkFailedSave_statusOnly(p) ==
    /\ pc[p] = "mf_save"
    /\ store' = [i \in 1..Len(store) |->
                    IF store[i].id = contribution[p].id
                    THEN [store[i] EXCEPT !.status = FAILED]
                    ELSE store[i]]
    /\ Goto(p, "mf_audit")
    /\ UNCHANGED <<audit, tiers, call, tier, contribution, reason, ledger, auditUp>>

\* Mutant: markFailed changes the status in memory only.
MarkFailedSave_notPersisted(p) ==
    /\ pc[p] = "mf_save"
    /\ Goto(p, "mf_audit")
    /\ UNCHANGED <<store, audit, tiers, call, tier, contribution, reason,
                   ledger, auditUp>>

\* markFailed: contributionRepository.save(contribution)
MarkFailedSave(p) ==
    /\ pc[p] = "mf_save"
    /\ store' = save(store, contribution[p])
    /\ Goto(p, "mf_audit")
    /\ UNCHANGED <<audit, tiers, call, tier, contribution, reason, ledger, auditUp>>

PaymentFailedEvent(p) ==
    AuditEvent("PAYMENT_FAILED", contribution[p].sponsorId, contribution[p].id,
               reason[p])

\* markFailed: auditService.log answers; the caller then throws BadRequest.
MarkFailedAudit(p) ==
    /\ pc[p] = "mf_audit"
    /\ AwaitAuditLog(p, PaymentFailedEvent(p), "BadRequest", reason[p].kind,
                     NoContribution)
    /\ UNCHANGED <<store, tiers, ledger, auditUp>>

\* Mutant: the commit is not preceded by a capacity re-check.
ConfirmCapacity_noRecheck(p) ==
    /\ pc[p] = "cc_count"
    /\ contribution' = [contribution EXCEPT
          ![p].transactionHash = call[p].hash, ![p].status = CONFIRMED]
    /\ Goto(p, "cc_save")
    /\ UNCHANGED <<call, tier, reason>>
    /\ UNCHANGED <<store, audit, tiers, ledger, auditUp>>

\* Mutant: a full tier at the re-check marks the contribution failed.
ConfirmCapacity_marksFailed(p) ==
    /\ pc[p] = "cc_count"
    /\ IF capacityExhausted(store, tier[p], contribution[p].id)
       THEN /\ store' = save(store, [contribution[p] EXCEPT !.status = FAILED])
            /\ Finish(p, call[p], "Conflict", "tierFull", NoContribution)
       ELSE /\ contribution' = [contribution EXCEPT
                  ![p].transactionHash = call[p].hash, ![p].status = CONFIRMED]
            /\ Goto(p, "cc_save")
            /\ store' = store
            /\ UNCHANGED <<call, tier, reason>>
    /\ UNCHANGED <<audit, tiers, ledger, auditUp>>

\* Mutant: the commit sets the status but not the transaction hash.
ConfirmCapacity_noHash(p) ==
    /\ pc[p] = "cc_count"
    /\ IF capacityExhausted(store, tier[p], contribution[p].id)
       THEN Finish(p, call[p], "Conflict", "tierFull", NoContribution)
       ELSE /\ contribution' = [contribution EXCEPT ![p].status = CONFIRMED]
            /\ Goto(p, "cc_save")
            /\ UNCHANGED <<call, tier, reason>>
    /\ UNCHANGED <<store, audit, tiers, ledger, auditUp>>

\* assertCapacityAvailable(contribution.tier, contribution.id) answers; the
\* hash and the status are then set in memory.
ConfirmCapacity(p) ==
    /\ pc[p] = "cc_count"
    /\ IF capacityExhausted(store, tier[p], contribution[p].id)
       THEN Finish(p, call[p], "Conflict", "tierFull", NoContribution)
       ELSE /\ contribution' = [contribution EXCEPT
                  ![p].transactionHash = call[p].hash, ![p].status = CONFIRMED]
            /\ Goto(p, "cc_save")
            /\ UNCHANGED <<call, tier, reason>>
    /\ UNCHANGED <<store, audit, tiers, ledger, auditUp>>

\* contributionRepository.save(contribution)
ConfirmSave(p) ==
    /\ pc[p] = "cc_save"
    /\ store' = save(store, contribution[p])
    /\ Goto(p, "cc_audit")
    /\ UNCHANGED <<audit, tiers, call, tier, contribution, reason, ledger, auditUp>>

PaymentConfirmedEvent(p) ==
    AuditEvent("PAYMENT_CONFIRMED", contribution[p].sponsorId, contribution[p].id,
               <<call[p].hash, contribution[p].tierId, contribution[p].amount>>)

\* auditService.log answers and the confirmed contribution is returned.
ConfirmAudit(p) ==
    /\ pc[p] = "cc_audit"
    /\ AwaitAuditLog(p, PaymentConfirmedEvent(p), "ok", "confirmed", contribution[p])
    /\ UNCHANGED <<store, tiers, ledger, auditUp>>

-----------------------------------------------------------------------------

\* The answer of the invocation that just ended is handed to its caller.
Respond ==
    /\ response # NoResponse
    /\ response' = NoResponse
    /\ UNCHANGED <<store, audit, tiers, pc, call, tier, contribution, reason,
                   ledger, auditUp, amountCheck>>

Step(p) ==
    \/ \E t \in TierIdArgs, s \in Sponsors : createIntent(p, t, s)
    \/ CreateIntentCapacity(p)
    \/ CreateIntentSave(p)
    \/ CreateIntentAudit(p)
    \/ \E h \in HashArgs : confirmContribution(p, h)
    \/ ConfirmFindOne(p)
    \/ ConfirmResolveOps(p)
    \/ MarkFailedSave(p)
    \/ MarkFailedAudit(p)
    \/ ConfirmCapacity(p)
    \/ ConfirmSave(p)
    \/ ConfirmAudit(p)

Next ==
    \/ response = NoResponse /\ \E p \in Procs : Step(p)
    \/ Respond

Spec == Init /\ [][Next]_vars

-----------------------------------------------------------------------------
(* The amount stage on its own *)

\* The eight fractional digits of a count of 1e-8 units below one whole unit.
Digits8(n) == [i \in 1..8 |-> (n \div Pow10(8 - i)) % 10]

\* The decimal string of the amount `k` units of 1e-8 away from amount string s.
Shifted(s, k) ==
    LET e == DigitsValue(s.digits) * Pow10(8 - Len(s.digits)) + k IN
    IF e < 0 THEN Dec(s.int - 1, Digits8(e + Pow10(8)))
    ELSE IF e >= Pow10(8) THEN Dec(s.int + 1, Digits8(e - Pow10(8)))
    ELSE Dec(s.int, Digits8(e))

\* contribution.amount values, as the decimal(18,7) column returns them.
ExpectedAmounts ==
    {Dec(0, <<5, 0, 0, 0, 0, 0, 0>>), Dec(1, <<0, 0, 0, 0, 0, 0, 0>>),
     Dec(5, <<0, 0, 0, 0, 0, 0, 0>>), Price100, Dec(150, <<0, 0, 0, 0, 0, 0, 0>>)}

\* Distances of the on-chain amount from the expected one, in units of 1e-8.
Offsets == {0, 1, -1, 9, -9, 10, -10, 11, -11, 100, -100, 100000000, -100000000}

InitAmount ==
    /\ store = <<>>
    /\ audit = EmptyBag
    /\ tiers = InitTiers
    /\ pc = [p \in Procs |-> "idle"]
    /\ call = [p \in Procs |-> NoCall]
    /\ tier = [p \in Procs |-> NoTier]
    /\ contribution = [p \in Procs |-> NoContribution]
    /\ reason = [p \in Procs |-> NoReason]
    /\ response = NoResponse
    /\ ledger = LedgerAmount
    /\ auditUp = TRUE
    /\ \E e \in ExpectedAmounts, k \in Offsets :
          amountCheck = [onChain |-> Shifted(e, k), expected |-> e,
                         verdict |-> "unchecked"]

\* Lines 175-178 applied to matchingOp.amount and contribution.amount.
CheckAmount ==
    /\ amountCheck.verdict = "unchecked"
    /\ amountCheck' = [amountCheck EXCEPT !.verdict =
          IF amountMismatch(parseFloat(amountCheck.onChain),
                            parseFloat(amountCheck.expected))
          THEN "mismatch" ELSE "match"]
    /\ UNCHANGED <<store, audit, tiers, pc, call, tier, contribution, reason,
                   response, ledger, auditUp>>

NextAmount == CheckAmount

SpecAmount == InitAmount /\ [][NextAmount]_vars

-----------------------------------------------------------------------------
(* Vocabulary of the properties *)

Rows == 1..Len(store)

\* Rows of tier t that are confirmed, the row with identifier `self` left out.
ConfirmedRows(t, self) ==
    {i \in Rows : store[i].tierId = t /\ store[i].status = CONFIRMED
                  /\ store[i].id # self}

\* Slot p takes this step and leaves the await `label`.
Leaves(p, label) == pc[p] = label /\ pc'[p] # label

\* This step ends an invocation of slot p.
Answers(p) == response' # NoResponse /\ response'.proc = p

\* This step starts an invocation of slot p with arguments c.
Starts(p, c) ==
    /\ pc[p] = "idle"
    /\ \/ call'[p] = c
       \/ Answers(p) /\ response'.call = c

Untouched == store' = store /\ audit' = audit

\* The row with identifier id, if any.
RowOf(id) == {i \in Rows : store[i].id = id}

\* C1: in every reachable state, every tier has at most maxSponsors confirmed
\* contributions, whatever the interleaving of concurrent confirmations.
C1_CapacityInvariant ==
    \A t \in DOMAIN tiers :
        Cardinality(ConfirmedRows(t, Null)) <= tiers[t].maxSponsors

\* C2: a contribution is created pending, and a status that is confirmed or
\* failed never changes again.
C2_TerminalStates ==
    [][/\ \A i \in Rows :
            store[i].status \in {CONFIRMED, FAILED}
                => store'[i].status = store[i].status
       /\ \A i \in (1..Len(store')) \ Rows : store'[i].status = PENDING]_vars

\* C3: createIntent on a tier whose confirmed count is at or above maxSponsors
\* fails with Conflict, on an unknown tier with NotFound, and in both cases
\* neither the contribution table nor the audit log changes.
C3_FullTierIntentRejected ==
    [][\A p \in Procs :
        /\ \A t \in TierIdArgs \ DOMAIN tiers, s \in Sponsors :
              Starts(p, CreateCall(t, s))
                  => Answers(p) /\ response'.kind = "NotFound" /\ Untouched
        /\ (/\ Leaves(p, "ci_count")
            /\ Cardinality(ConfirmedRows(call[p].tierId, Null))
                  >= tiers[call[p].tierId].maxSponsors)
              => Answers(p) /\ response'.kind = "Conflict" /\ Untouched
        /\ (Answers(p) /\ response'.call.op = "createIntent"
                /\ response'.kind \in {"Conflict", "NotFound"})
              => pc[p] \in {"idle", "ci_count"} /\ Untouched]_vars

C3_Witness ==
    /\ response.kind = "Conflict"
    /\ response.call.op = "createIntent"
    /\ Cardinality(ConfirmedRows(response.call.tierId, Null))
          >= tiers[response.call.tierId].maxSponsors

\* The memo a transaction hash carries on the ledger, when it is a string.
MemoOfHash(h) == ledger[h].memo.value

\* C4: a confirmation whose memo names no pending contribution (unknown,
\* already confirmed or already failed) fails with NotFound and changes
\* nothing; a contribution that is no longer pending never becomes pending
\* again, so a replay of a confirmed hash is rejected.
C4_ReplayRejected ==
    [][/\ \A p \in Procs :
            (/\ Leaves(p, "cc_findOne")
             /\ \A i \in Rows : store[i].id = MemoOfHash(call[p].hash)
                                    => store[i].status # PENDING)
              => Answers(p) /\ response'.kind = "NotFound" /\ Untouched
       /\ \A i \in Rows : store[i].status # PENDING => store'[i].status # PENDING
       /\ \A p \in Procs :
            (Answers(p) /\ response'.kind = "ok"
                /\ response'.call.op = "confirmContribution")
              => \A i \in Rows : store'[i].id = MemoOfHash(response'.call.hash)
                                    => store'[i].status # PENDING]_vars

\* A replay: the hash that confirmed the contribution is submitted again.
C4_Witness ==
    /\ response.kind = "NotFound"
    /\ response.call.op = "confirmContribution"
    /\ \E i \in Rows :
          /\ store[i].id = MemoOfHash(response.call.hash)
          /\ store[i].status = CONFIRMED
          /\ store[i].transactionHash = response.call.hash

\* C5: when the capacity re-check of a confirmation finds the tier full, the
\* call fails with Conflict and neither the table (status pending, no hash)
\* nor the audit log changes.
C5_FullAtRecheckStaysPending ==
    [][\A p \in Procs :
        (/\ Leaves(p, "cc_count")
         /\ Cardinality(ConfirmedRows(contribution[p].tierId, contribution[p].id))
              >= tier[p].maxSponsors)
          => /\ Answers(p) /\ response'.kind = "Conflict"
             /\ Untouched
             /\ contribution[p].status = PENDING
             /\ contribution[p].transactionHash = Null]_vars

C5_Witness ==
    /\ response.kind = "Conflict"
    /\ response.call.op = "confirmContribution"
    /\ \E i \in Rows :
          /\ store[i].id = MemoOfHash(response.call.hash)
          /\ store[i].status = PENDING
          /\ store[i].transactionHash = Null
          /\ \A e \in BagToSet(audit) :
                e.action = "PAYMENT_FAILED" => e.resourceId # store[i].id

\* What a transaction on the ledger pays, read off its record.
RecordsOf(h) == ledger[h].records

PaymentIndexes(h) ==
    IF ledger[h].opsHref = Undefined THEN {}
    ELSE {i \in 1..Len(RecordsOf(h)) :
            RecordsOf(h)[i].type \in {"payment", "create_account"}}

EscrowIndexes(h) == {i \in PaymentIndexes(h) : RecordsOf(h)[i].to = escrowWallet}

\* The first operation of the transaction that pays the escrow wallet.
FirstEscrowOp(h) ==
    RecordsOf(h)[CHOOSE i \in EscrowIndexes(h) : \A j \in EscrowIndexes(h) : i <= j]

HasSupportedAsset(op) ==
    \/ op.asset_type = "native"
    \/ op.asset_code \in {"XLM", "USDC", "xlm", "usdc"}

\* The decimal value of an amount string, in units of 1e-8 beyond `base` whole units.
ValueE8(s, base) == (s.int - base) * 100000000
                        + DigitsValue(s.digits) * Pow10(8 - Len(s.digits))

\* |a - b| of two amount strings in units of 1e-8 (2 whole units stand for
\* every larger gap).
GapE8(a, b) ==
    IF Abs(a.int - b.int) > 2 THEN 200000000
    ELSE Abs(ValueE8(a, b.int) - ValueE8(b, b.int))

\* The transaction with hash h is a valid payment of contribution c.
ValidPayment(h, c) ==
    /\ ledger[h].memo = Str(c.id)
    /\ EscrowIndexes(h) # {}
    /\ HasSupportedAsset(FirstEscrowOp(h))
    /\ GapE8(FirstEscrowOp(h).amount, c.amount) = 0

\* The table after the row of entity e took status st and transaction hash h.
Transitioned(e, st, h) ==
    /\ Len(store') = Len(store)
    /\ \A i \in Rows :
          IF store[i].id = e.id
          THEN store'[i] = [id |-> e.id, sponsorId |-> e.sponsorId,
                            tierId |-> e.tierId, amount |-> e.amount,
                            transactionHash |-> h, status |-> st]
          ELSE store'[i] = store[i]

\* The audit log gained exactly the event ev.
Logged(ev) ==
    /\ BagCardinality(audit') = BagCardinality(audit) + 1
    /\ CopiesIn(ev, audit') = CopiesIn(ev, audit) + 1

ConfirmedEventOf(e, h) ==
    [action |-> "PAYMENT_CONFIRMED", userId |-> e.sponsorId, resourceId |-> e.id,
     meta |-> <<h, e.tierId, e.amount>>]

\* C6: a confirmation of a pending contribution with a valid payment and a
\* free slot passes every validation stage, persists status confirmed and the
\* submitted hash, records exactly one payment-confirmed event and returns
\* the confirmed contribution (the operations fetch and the audit recorder
\* answering).
C6_SuccessfulConfirmation ==
    [][\A p \in Procs :
        /\ (Leaves(p, "cc_fetch") /\ ValidPayment(call[p].hash, contribution[p]))
              => \/ pc'[p] = "cc_count" /\ Untouched
                 \/ pc'[p] = "mf_save" /\ reason'[p].kind = "noOperations"
        /\ (/\ Leaves(p, "cc_count")
            /\ Cardinality(ConfirmedRows(contribution[p].tierId, contribution[p].id))
                  < tier[p].maxSponsors)
              => pc'[p] = "cc_save" /\ Untouched
        /\ Leaves(p, "cc_save")
              => /\ Transitioned(contribution[p], CONFIRMED, call[p].hash)
                 /\ audit' = audit
                 /\ pc'[p] = "cc_audit"
        /\ (Leaves(p, "cc_audit") /\ auditUp)
              => /\ Answers(p) /\ response'.kind = "ok"
                 /\ response'.value.id = contribution[p].id
                 /\ response'.value.status = CONFIRMED
                 /\ response'.value.transactionHash = call[p].hash
                 /\ Logged(ConfirmedEventOf(contribution[p], call[p].hash))
                 /\ store' = store]_vars

C6_Witness ==
    /\ response.kind = "ok"
    /\ response.call.op = "confirmContribution"
    /\ \E i \in Rows :
          /\ store[i].id = MemoOfHash(response.call.hash)
          /\ store[i].status = CONFIRMED
          /\ store[i].transactionHash = response.call.hash
          /\ response.value = store[i]
          /\ CopiesIn(ConfirmedEventOf(store[i], response.call.hash), audit) = 1

FailedEventOf(e, r) ==
    [action |-> "PAYMENT_FAILED", userId |-> e.sponsorId, resourceId |-> e.id,
     meta |-> r]

\* Slot p calls markFailed with reason r, or with the reason of an empty
\* operation list when the operations fetch failed.
MarksFailed(p, r) ==
    /\ pc'[p] = "mf_save"
    /\ contribution'[p].status = FAILED
    /\ reason'[p] = r \/ reason'[p].kind = "noOperations"
    /\ Untouched

\* C7: once a pending contribution is located, a payment failing the
\* destination, asset or amount check has the contribution persisted as failed
\* and a payment-failed event recorded, with the expected wallet, the asset
\* code or both amounts as reason, before the call fails with BadRequest.
C7_ValidationFailureMarksFailed ==
    [][\A p \in Procs :
        /\ (Leaves(p, "cc_fetch") /\ PaymentIndexes(call[p].hash) # {})
              => LET h == call[p].hash IN
                 IF EscrowIndexes(h) = {}
                 THEN MarksFailed(p, [kind |-> "destination",
                                      detail |-> <<escrowWallet>>])
                 ELSE IF ~HasSupportedAsset(FirstEscrowOp(h))
                 THEN MarksFailed(p, [kind |-> "asset",
                                      detail |-> <<FirstEscrowOp(h).asset_code>>])
                 ELSE GapE8(FirstEscrowOp(h).amount, contribution[p].amount) > EpsilonE8
                        => MarksFailed(p, [kind |-> "amount",
                              detail |-> <<parseFloat(contribution[p].amount),
                                           parseFloat(FirstEscrowOp(h).amount)>>])
        /\ Leaves(p, "mf_save")
              => /\ Transitioned(contribution[p], FAILED, Null)
                 /\ audit' = audit
                 /\ pc'[p] = "mf_audit"
        /\ (Leaves(p, "mf_audit") /\ auditUp)
              => /\ Answers(p) /\ response'.kind = "BadRequest"
                 /\ response'.message = reason[p].kind
                 /\ Logged(FailedEventOf(contribution[p], reason[p]))
                 /\ store' = store]_vars

\* The EURT scenario: the contribution is failed and the reason names EURT.
C7_Witness ==
    /\ response.kind = "BadRequest"
    /\ response.message = "asset"
    /\ \E i \in Rows :
          /\ store[i].id = MemoOfHash(response.call.hash)
          /\ store[i].status = FAILED
          /\ CopiesIn(FailedEventOf(store[i], [kind |-> "asset", detail |-> <<"EURT">>]),
                      audit) = 1

\* C8: confirmContribution fails with BadRequest ("not found on network") both
\* when getTransaction raises and when it returns no record, and changes no
\* contribution.
C8_LookupFailure ==
    [][\A p \in Procs :
        \A h \in HashArgs \ DOMAIN ledger :
            Starts(p, ConfirmCall(h))
                => /\ Answers(p)
                   /\ response'.kind = "BadRequest"
                   /\ response'.message = "notOnNetwork"
                   /\ Untouched]_vars

\* C9: a transaction record without a string memo makes confirmContribution
\* fail with BadRequest before any store lookup; table and audit log are
\* unchanged.
C9_MissingMemo ==
    [][\A p \in Procs :
        /\ \A h \in DOMAIN ledger :
              (Starts(p, ConfirmCall(h)) /\ ledger[h].memo.type # "string")
                  => /\ Answers(p)
                     /\ response'.kind = "BadRequest"
                     /\ response'.message \in {"memoMissing", "notOnNetwork"}
                     /\ Untouched
        /\ call'[p].op = "confirmContribution"
              => ledger[call'[p].hash].memo.type = "string"]_vars

C9_Witness ==
    /\ response.kind = "BadRequest"
    /\ response.message = "memoMissing"
    /\ response.call.hash \in DOMAIN ledger
    /\ ledger[response.call.hash].memo.type # "string"

\* C10: the amount stage passes exactly when the on-chain amount and the
\* contribution's amount differ by at most 1e-7, in both directions.
C10_ExactWithinEpsilon ==
    amountCheck.verdict \in {"match", "mismatch"}
        => (amountCheck.verdict = "match"
                <=> GapE8(amountCheck.onChain, amountCheck.expected) <= EpsilonE8)

-----------------------------------------------------------------------------
(* Intent result *)

\* The row createIntent(tierId, sponsorId) is to add under identifier id.
IntentRow(id, tierId, sponsorId) ==
    [id |-> id, sponsorId |-> sponsorId, tierId |-> tierId,
     amount |-> tiers[tierId].price, transactionHash |-> Null, status |-> PENDING]

IntentEventOf(row) ==
    [action |-> "PAYMENT_INTENT_CREATED", userId |-> row.sponsorId,
     resourceId |-> row.id, meta |-> <<row.tierId, row.amount, "XLM">>]

\* The last row of the table.
NewestRow == store[Len(store)]

\* C11: a successful createIntent(tierId, sponsorId) adds exactly one row:
\* pending, amount the tier's price, the given sponsor and tier, no hash, under
\* a fresh identifier; it records exactly one payment-intent-created event for
\* that row and returns memo = contributionId = the row's identifier with the
\* escrow wallet and amount = tier price.  No other step adds a row.
C11_IntentResult ==
    [][/\ \A p \in Procs :
            /\ Leaves(p, "ci_save")
                  => /\ Len(store') = Len(store) + 1
                     /\ SubSeq(store', 1, Len(store)) = store
                     /\ RowOf(store'[Len(store')].id) = {}
                     /\ store'[Len(store')] =
                           IntentRow(store'[Len(store')].id, call[p].tierId,
                                     call[p].sponsorId)
                     /\ audit' = audit
                     /\ pc'[p] = "ci_audit"
            /\ (Leaves(p, "ci_audit") /\ auditUp)
                  => /\ Answers(p) /\ response'.kind = "ok"
                     /\ \E i \in Rows :
                          /\ store[i].sponsorId = call[p].sponsorId
                          /\ store[i].tierId = call[p].tierId
                          /\ store[i].amount = tiers[call[p].tierId].price
                          /\ response'.value =
                                [contributionId |-> store[i].id,
                                 escrowWallet |-> escrowWallet,
                                 amount |-> tiers[call[p].tierId].price,
                                 currency |-> "XLM", memo |-> store[i].id]
                          /\ Logged(IntentEventOf(store[i]))
                          /\ CopiesIn(IntentEventOf(store[i]), audit) = 0
                     /\ store' = store
            /\ (Answers(p) /\ response'.kind = "ok"
                    /\ response'.call.op = "createIntent")
                  => pc[p] = "ci_audit"
       /\ Len(store') # Len(store) => \E p \in Procs : Leaves(p, "ci_save")]_vars

\* An intent has just been returned for the newest row.
C11_Witness ==
    /\ response.kind = "ok"
    /\ response.call.op = "createIntent"
    /\ Len(store) > 0
    /\ response.value.memo = NewestRow.id
    /\ response.value.contributionId = NewestRow.id
    /\ response.value.escrowWallet = escrowWallet
    /\ response.value.amount = tiers[response.call.tierId].price
    /\ NewestRow = IntentRow(NewestRow.id, response.call.tierId,
                             response.call.sponsorId)
    /\ CopiesIn(IntentEventOf(NewestRow), audit) = 1

-----------------------------------------------------------------------------
(* Amount fidelity: the service while tier prices are being changed *)

Price150 == Dec(150, <<0, 0, 0, 0, 0, 0, 0>>)

\* Prices an organizer may set on a tier.
PriceArgs == {Price100, Price150}

\* c1 paid at 100 and at 150, c2 paid at 150.  The table holds the Gold tier
\* alone.
LedgerPrice ==
    [h \in {"hA", "hP", "hQ"} |->
      CASE h = "hA" -> GoodC1
        [] h = "hP" -> Tx(Str("c1"), "ops", <<Native(escrowWallet, Price150)>>)
        [] OTHER -> Tx(Str("c2"), "ops", <<Native(escrowWallet, Price150)>>)]

InitPrice ==
    /\ store = <<>>
    /\ audit = EmptyBag
    /\ tiers = [t \in {"t1"} |-> InitTiers[t]]
    /\ pc = [p \in Procs |-> "idle"]
    /\ call = [p \in Procs |-> NoCall]
    /\ tier = [p \in Procs |-> NoTier]
    /\ contribution = [p \in Procs |-> NoContribution]
    /\ reason = [p \in Procs |-> NoReason]
    /\ response = NoResponse
    /\ ledger = LedgerPrice
    /\ auditUp = TRUE
    /\ amountCheck = NoAmountCheck

\* PUT /sponsors/:id with a new price: the tier row is rewritten; tier objects
\* and contributions already read or stored are not.
updateTier(id, price) ==
    /\ tiers[id].price # price
    /\ tiers' = [tiers EXCEPT ![id].price = price]
    /\ UNCHANGED <<store, audit, pc, call, tier, contribution, reason, response,
                   ledger, auditUp, amountCheck>>

NextPrice ==
    \/ /\ response = NoResponse
       /\ \/ \E p \in Procs : Step(p)
          \/ \E id \in DOMAIN tiers, price \in PriceArgs : updateTier(id, price)
    \/ Respond

SpecPrice == InitPrice /\ [][NextPrice]_vars

\* The amount stored for the contribution a transaction's memo names.
StoredAmount(h) == store[CHOOSE i \in RowOf(MemoOfHash(h)) : TRUE].amount

\* C12: the amount of a stored contribution never changes, whatever
\* confirmContribution, markFailed or a change of the tier's price does, and the
\* amount stage compares the on-chain amount with the stored amount: a payment
\* of exactly the stored amount is never rejected for its amount and a payment
\* differing from it by more than epsilon always is, whatever the tier's price
\* is by then.
C12_AmountFidelity ==
    [][/\ Len(store') >= Len(store)
       /\ \A i \in Rows : store'[i].amount = store[i].amount
       /\ \A p \in Procs :
            (/\ Leaves(p, "cc_fetch")
             /\ EscrowIndexes(call[p].hash) # {}
             /\ HasSupportedAsset(FirstEscrowOp(call[p].hash)))
              => LET h == call[p].hash
                     gap == GapE8(FirstEscrowOp(h).amount, StoredAmount(h)) IN
                 /\ gap = 0 => \/ pc'[p] = "cc_count"
                               \/ pc'[p] = "mf_save" /\ reason'[p].kind = "noOperations"
                 /\ gap > EpsilonE8
                      => MarksFailed(p, [kind |-> "amount",
                            detail |-> <<parseFloat(StoredAmount(h)),
                                         parseFloat(FirstEscrowOp(h).amount)>>])]_vars

\* The price of a tier went from 100 to 150 after two intents at 100: the
\* payment of 100 was confirmed and the payment of 150 was marked failed.
C12_Witness ==
    \E i, j \in Rows :
        /\ store[i].amount = Price100 /\ store[j].amount = Price100
        /\ tiers[store[i].tierId].price = Price150
        /\ tiers[store[j].tierId].price = Price150
        /\ store[i].status = CONFIRMED
        /\ FirstEscrowOp(store[i].transactionHash).amount = Price100
        /\ store[j].status = FAILED
        /\ CopiesIn(FailedEventOf(store[j], [kind |-> "amount",
                        detail |-> <<parseFloat(Price100), parseFloat(Price150)>>]),
                    audit) = 1

-----------------------------------------------------------------------------
(* Pipeline order *)

\* The awaits of confirmContribution, each with the awaits that may follow it.
StageOrder ==
    { <<"idle", "cc_findOne">>, <<"cc_findOne", "idle">>, <<"cc_findOne", "cc_fetch">>,
      <<"cc_fetch", "mf_save">>, <<"cc_fetch", "cc_count">>,
      <<"mf_save", "mf_audit">>, <<"mf_audit", "idle">>,
      <<"cc_count", "idle">>, <<"cc_count", "cc_save">>,
      <<"cc_save", "cc_audit">>, <<"cc_audit", "idle">> }

\* The earliest validation stage the payment of transaction h fails against
\* the expected amount, "none" if it fails none.
EarliestFailure(h, amount) ==
    IF PaymentIndexes(h) = {} THEN "noOperations"
    ELSE IF EscrowIndexes(h) = {} THEN "destination"
    ELSE IF ~HasSupportedAsset(FirstEscrowOp(h)) THEN "asset"
    ELSE IF GapE8(FirstEscrowOp(h).amount, amount) > EpsilonE8 THEN "amount"
    ELSE "none"

\* C13: the stages of one confirmContribution run in the order lookup, memo,
\* correlation, operation extraction, operations-present, destination, asset,
\* amount, capacity re-check, commit, and the outcome is that of the earliest
\* failing stage: lookup and memo failures answer before the table is read, a
\* missing pending contribution answers NotFound, a payment failing a
\* validation stage is marked failed with that stage's reason whether or not
\* its tier is full, and Conflict comes from the capacity re-check alone.
C13_PipelineOrder ==
    [][\A p \in Procs :
        /\ (pc'[p] # pc[p] /\ (call[p].op = "confirmContribution"
                                  \/ call'[p].op = "confirmContribution"))
              => <<pc[p], pc'[p]>> \in StageOrder
        /\ (Answers(p) /\ response'.call.op = "confirmContribution")
              => /\ pc[p] = "idle"
                    => response'.kind \in {"BadRequest", "TypeError"} /\ Untouched
                 /\ pc[p] = "cc_findOne" => response'.kind = "NotFound"
                 /\ pc[p] = "mf_audit" => response'.kind \in {"BadRequest", "AuditError"}
                 /\ response'.kind = "BadRequest" => pc[p] \in {"idle", "mf_audit"}
                 /\ response'.kind = "Conflict" => pc[p] = "cc_count"
                 /\ response'.kind = "ok" => pc[p] = "cc_audit"
        /\ Leaves(p, "cc_fetch")
              => LET stage == EarliestFailure(call[p].hash, contribution[p].amount) IN
                 /\ ~Answers(p)
                 /\ stage # "none"
                      => /\ pc'[p] = "mf_save"
                         /\ reason'[p].kind \in {stage, "noOperations"}
                 /\ pc'[p] = "mf_save"
                      => reason'[p].kind \in {stage, "noOperations"}
        /\ (Leaves(p, "mf_audit") /\ auditUp)
              => response'.kind = "BadRequest" /\ response'.message = reason[p].kind]_vars

\* A payment to a wrong destination in an unsupported asset, for a pending
\* contribution of a tier that is already full: the contribution is failed,
\* the reason is the destination, the answer is BadRequest.
C13_Witness ==
    /\ response.kind = "BadRequest"
    /\ response.message = "destination"
    /\ response.call.hash \in DOMAIN ledger
    /\ LET h == response.call.hash IN
        /\ PaymentIndexes(h) # {}
        /\ \A k \in PaymentIndexes(h) :
              RecordsOf(h)[k].to # escrowWallet /\ ~HasSupportedAsset(RecordsOf(h)[k])
        /\ \E i \in Rows :
              /\ store[i].id = MemoOfHash(h)
              /\ store[i].status = FAILED
              /\ Cardinality(ConfirmedRows(store[i].tierId, store[i].id))
                    >= tiers[store[i].tierId].maxSponsors
              /\ CopiesIn(FailedEventOf(store[i], [kind |-> "destination",
                              detail |-> <<escrowWallet>>]), audit) = 1

-----------------------------------------------------------------------------
(* Several operations paying the escrow wallet *)

\* Operations of transaction h paying the escrow wallet after the first that does.
LaterEscrowIndexes(h) ==
    {k \in EscrowIndexes(h) : \E j \in EscrowIndexes(h) : j < k}

\* Operation k of transaction h alone would be a valid payment of `amount`.
ExactPayment(h, k, amount) ==
    /\ HasSupportedAsset(RecordsOf(h)[k])
    /\ GapE8(RecordsOf(h)[k].amount, amount) = 0

\* Operations j and k of transaction h together amount to `amount`.
SumsTo(h, j, k, amount) ==
    ValueE8(RecordsOf(h)[j].amount, amount.int) + ValueE8(RecordsOf(h)[k].amount, 0)
        = ValueE8(amount, amount.int)

\* C14: when several operations of the transaction pay the escrow wallet, the
\* first of them alone is validated: if its asset is unsupported or its amount
\* is off by more than epsilon, the contribution is marked failed with the
\* reason naming that operation's asset code or amount and the call fails with
\* BadRequest, even though a later operation is an exact payment or the
\* amounts add up to the expected one.
C14_FirstEscrowOpOnly ==
    [][\A p \in Procs :
        (Leaves(p, "cc_fetch") /\ LaterEscrowIndexes(call[p].hash) # {})
          => LET h == call[p].hash
                 first == FirstEscrowOp(h) IN
             IF ~HasSupportedAsset(first)
             THEN MarksFailed(p, [kind |-> "asset", detail |-> <<first.asset_code>>])
             ELSE GapE8(first.amount, contribution[p].amount) > EpsilonE8
                    => MarksFailed(p, [kind |-> "amount",
                          detail |-> <<parseFloat(contribution[p].amount),
                                       parseFloat(first.amount)>>])]_vars

\* The first payment to the escrow wallet is short, the second makes up the
\* difference and a third is exact: the contribution is failed for the amount
\* of the first.
C14_Witness ==
    /\ response.kind = "BadRequest"
    /\ response.message = "amount"
    /\ LET h == response.call.hash IN
        \E i \in Rows :
          /\ store[i].id = MemoOfHash(h)
          /\ store[i].status = FAILED
          /\ store[i].transactionHash = Null
          /\ \E k \in LaterEscrowIndexes(h) : ExactPayment(h, k, store[i].amount)
          /\ \E j, k \in EscrowIndexes(h) : j < k /\ SumsTo(h, j, k, store[i].amount)
          /\ CopiesIn(FailedEventOf(store[i], [kind |-> "amount",
                          detail |-> <<parseFloat(store[i].amount),
                                       parseFloat(FirstEscrowOp(h).amount)>>]),
                      audit) = 1

-----------------------------------------------------------------------------
(* Failures of the operations fetch *)

NoOperationsReason == [kind |-> "noOperations", detail |-> <<>>]

\* C15: the operations fetch never fails the call by itself: after it the
\* invocation either goes on with the capacity re-check or calls markFailed.
\* Without an operations link, and without payment or create_account
\* operations, the contribution is marked failed with the reason "no payment
\* operations"; a failed or non-OK fetch of a transaction that does hold
\* payments ends in the very same marking, which is persisted, recorded with
\* that reason and answered with BadRequest.
C15_FetchFailureDowngraded ==
    [][\A p \in Procs :
        /\ Leaves(p, "cc_fetch")
              => /\ ~Answers(p)
                 /\ Untouched
                 /\ pc'[p] \in {"mf_save", "cc_count"}
                 /\ PaymentIndexes(call[p].hash) = {}
                      => MarksFailed(p, NoOperationsReason)
                 /\ reason'[p].kind = "noOperations"
                      => /\ reason'[p] = NoOperationsReason
                         /\ pc'[p] = "mf_save"
                         /\ contribution'[p] = [contribution[p] EXCEPT !.status = FAILED]
        /\ (Leaves(p, "mf_save") /\ reason[p].kind = "noOperations")
              => Transitioned(contribution[p], FAILED, Null) /\ audit' = audit
        /\ (Leaves(p, "mf_audit") /\ reason[p].kind = "noOperations" /\ auditUp)
              => /\ Answers(p)
                 /\ response'.kind = "BadRequest"
                 /\ response'.message = "noOperations"
                 /\ Logged(FailedEventOf(contribution[p], NoOperationsReason))]_vars

\* A transaction that is a valid payment of the contribution, whose operations
\* could not be fetched: the contribution is failed for "no payment operations".
C15_Witness ==
    /\ response.kind = "BadRequest"
    /\ response.message = "noOperations"
    /\ \E i \in Rows :
          /\ store[i].id = MemoOfHash(response.call.hash)
          /\ ValidPayment(response.call.hash, store[i])
          /\ store[i].status = FAILED
          /\ CopiesIn(FailedEventOf(store[i], NoOperationsReason), audit) = 1

-----------------------------------------------------------------------------
(* Hash and status *)

\* C16: in every reachable state a contribution has a transaction hash if and
\* only if its status is confirmed; pending and failed contributions have none,
\* whatever the interleaving of createIntent and confirmContribution.
C16_HashIffConfirmed ==
    \A i \in Rows :
        (store[i].transactionHash # Null) <=> (store[i].status = CONFIRMED)

\* A contribution that was confirmed and then written back as failed by a
\* concurrent markFailed, next to a confirmed one.
C16_Witness ==
    /\ \E i \in Rows :
          /\ store[i].status = FAILED
          /\ store[i].transactionHash = Null
          /\ \E e \in BagToSet(audit) :
                e.action = "PAYMENT_CONFIRMED" /\ e.resourceId = store[i].id
    /\ \E j \in Rows :
          store[j].status = CONFIRMED /\ store[j].transactionHash \in DOMAIN ledger

-----------------------------------------------------------------------------
(* Audit and settlement *)

\* C17: in markFailed and in the commit step the status is persisted before
\* the audit event is recorded, the audit step never changes the table
\* whether the recorder accepts the event or not, and markFailed does not
\* raise: the caller of confirmContribution receives the BadRequest of the
\* failing validation stage.
C17_AuditLayered ==
    [][\A p \in Procs :
        /\ Leaves(p, "mf_save")
              => /\ Transitioned(contribution[p], FAILED, Null)
                 /\ audit' = audit
                 /\ pc'[p] = "mf_audit"
        /\ Leaves(p, "cc_save")
              => /\ Transitioned(contribution[p], CONFIRMED, call[p].hash)
                 /\ audit' = audit
                 /\ pc'[p] = "cc_audit"
        /\ (Leaves(p, "mf_audit") \/ Leaves(p, "cc_audit")) => store' = store
        /\ Leaves(p, "mf_audit")
              => /\ Answers(p)
                 /\ response'.kind = "BadRequest"
                 /\ response'.message = reason[p].kind]_vars

-----------------------------------------------------------------------------
(* The capacity re-check and the commit as one serializable transaction *)

\* Slot p is between the re-count (line 189) and the update (line 194).
InTransaction(p) == pc[p] = "cc_save"

\* The service with lines 188-194 of every confirmation wrapped in a
\* serializable transaction: while a slot is inside it no other invocation
\* takes a step.  Invocations running one after another are among its
\* behaviours.
NextSerializable ==
    \/ /\ response = NoResponse
       /\ \E p \in Procs :
            /\ \A q \in Procs \ {p} : ~InTransaction(q)
            /\ Step(p)
    \/ Respond

SpecSerializable == Init /\ [][NextSerializable]_vars

\* C18: when the re-count and the status update of every confirmation run as
\* one atomic step, every tier has at most maxSponsors confirmed contributions
\* in every reachable state, and a confirmation that has passed the re-count
\* still has a free slot for its own row when it writes.
C18_SerializableCapacity ==
    /\ \A t \in DOMAIN tiers :
          Cardinality({i \in Rows : store[i].tierId = t /\ store[i].status = CONFIRMED})
              <= tiers[t].maxSponsors
    /\ \A p \in Procs :
          InTransaction(p)
            => Cardinality(ConfirmedRows(contribution[p].tierId, contribution[p].id))
                  < tiers[contribution[p].tierId].maxSponsors

\* Two valid payments for two contributions of a tier with one slot left: one
\* is confirmed, the other is refused at the re-check and stays pending.
C18_Witness ==
    /\ response.kind = "Conflict"
    /\ response.call.op = "confirmContribution"
    /\ \E i, j \in Rows :
          /\ i # j
          /\ store[i].tierId = store[j].tierId
          /\ store[i].status = PENDING
          /\ ValidPayment(response.call.hash, store[i])
          /\ store[j].status = CONFIRMED
          /\ ValidPayment(store[j].transactionHash, store[j])
          /\ Cardinality(ConfirmedRows(store[i].tierId, Null))
                = tiers[store[i].tierId].maxSponsors

-----------------------------------------------------------------------------
(* One confirmation per contribution *)

\* The payment-confirmed events recorded for the contribution with identifier id.
ConfirmedEventsFor(id) ==
    {e \in BagToSet(audit) : e.action = "PAYMENT_CONFIRMED" /\ e.resourceId = id}

\* C19: a transaction hash stored on a contribution is never replaced by a
\* different hash, and confirmContribution returns successfully at most once
\* per contribution: no confirmation returns a contribution for which a
\* confirmation has been recorded already.
C19_SingleConfirmation ==
    [][/\ \A i \in Rows :
            (store[i].transactionHash # Null /\ store'[i].transactionHash # Null)
                => store'[i].transactionHash = store[i].transactionHash
       /\ \A p \in Procs :
            (Answers(p) /\ response'.kind = "ok"
                /\ response'.call.op = "confirmContribution")
              => ConfirmedEventsFor(response'.value.id) = {}]_vars

-----------------------------------------------------------------------------
(* Full tiers *)

\* The number of confirmed contributions of tier t in table st.
ConfirmedIn(st, t) ==
    Cardinality({i \in 1..Len(st) : st[i].tierId = t /\ st[i].status = CONFIRMED})

\* C20: the confirmed count of a tier never decreases, so a tier that is full
\* stays full: later intents for it are refused and its pending contributions
\* are never confirmed.
C20_OnceFullAlwaysFull ==
    [][\A t \in DOMAIN tiers :
        /\ ConfirmedIn(store', t) >= ConfirmedIn(store, t)
        /\ ConfirmedIn(store, t) >= tiers[t].maxSponsors
              => ConfirmedIn(store', t) >= tiers'[t].maxSponsors]_vars

====
